---- MODULE Spec2Model ----
(***************************************************************************)
(* Workflow editor of the recipe hierarchy: the ISA-88 tree, the per-level *)
(* canvas state, the flatten / rebuild transform of types.ts and the edit  *)
(* session of WorkflowEditor.tsx with the canvas of WorkflowCanvas.tsx.    *)
(*                                                                         *)
(* JavaScript objects whose key order is observable through JSON.stringify *)
(* (the canvas-state map, nodePositions) are sequences of key/value        *)
(* entries in insertion order with unique keys.  Ids are non-empty,        *)
(* trimmed, non-numeric strings.  null / undefined are the records Null    *)
(* and Undefined; a null parentId is the string NoParent, which is no id.  *)
(***************************************************************************)
EXTENDS Integers, Sequences, FiniteSets, TLC

(* ------------------------------------------------------------------ *)
(* Bounds of the model                                                 *)
(* ------------------------------------------------------------------ *)

\* mutating user actions (insertions and canvas notifications) per run
MaxOps == 3
\* save requests per run
MaxSaves == 2
\* insertions per run of the tree-only specification
MaxTreeAdds == 5
\* size of a tree that still accepts an insertion in the tree-only specification
MaxTreeNodes == 7

(* ------------------------------------------------------------------ *)
(* Values                                                              *)
(* ------------------------------------------------------------------ *)

Null == [null |-> TRUE]
Undefined == [undefined |-> TRUE]
NoParent == "<null>"
\* Map.get of an id that has no entry
NoEntry == "<undefined>"
\* buildPath returning null (a path is never empty)
NoPath == <<>>

RecipeId == "RCP"
RecipeName == "Recipe"
Ids == {"RCP", "a", "b"}
NewNames == {"Step"}

Pos(x, y) == [x |-> x, y |-> y]
\* positions a drag can end at
DragPositions == {Pos(210, 160), Pos(300, 160)}

NODE_GAP_Y == 120
START_Y == 40
CENTER_X == 300

ISA88_CHILD_TYPE(t) ==
  CASE t = "RECIPE" -> "PROCEDURE"
    [] t = "PROCEDURE" -> "UNIT_PROCEDURE"
    [] t = "UNIT_PROCEDURE" -> "OPERATION"
    [] t = "OPERATION" -> "PHASE"
    [] OTHER -> "null"

Node(id, name, type, children) ==
  [id |-> id, name |-> name, type |-> type, children |-> children]

(* ------------------------------------------------------------------ *)
(* Sequences and ordered objects                                       *)
(* ------------------------------------------------------------------ *)

Includes(s, e) == \E i \in 1..Len(s) : s[i] = e

RECURSIVE Flat(_)
Flat(ss) == IF ss = <<>> THEN <<>> ELSE Head(ss) \o Flat(Tail(ss))

\* obj[k] of an ordered object (entries [key, val]); Undefined when absent
HasKey(obj, k) == \E i \in 1..Len(obj) : obj[i].key = k
Get(obj, k) ==
  IF HasKey(obj, k)
  THEN obj[CHOOSE i \in 1..Len(obj) : obj[i].key = k].val
  ELSE Undefined
\* obj[k] = v: an existing key keeps its place, a new key goes last
Put(obj, k, v) ==
  IF HasKey(obj, k)
  THEN [i \in 1..Len(obj) |-> IF obj[i].key = k THEN [key |-> k, val |-> v] ELSE obj[i]]
  ELSE Append(obj, [key |-> k, val |-> v])
Keys(obj) == {obj[i].key : i \in 1..Len(obj)}

\* Array.prototype.sort by order, stable: insertion from the left
RECURSIVE InsertByOrder(_, _)
InsertByOrder(sorted, e) ==
  IF sorted = <<>> THEN <<e>>
  ELSE IF e.order < Head(sorted).order THEN <<e>> \o sorted
  ELSE <<Head(sorted)>> \o InsertByOrder(Tail(sorted), e)

RECURSIVE SortByOrder(_)
SortByOrder(s) ==
  IF s = <<>> THEN <<>>
  ELSE InsertByOrder(SortByOrder(SubSeq(s, 1, Len(s) - 1)), s[Len(s)])

(* ------------------------------------------------------------------ *)
(* types.ts: treeToWorkflow                                            *)
(* ------------------------------------------------------------------ *)

\* visit pushing every record as a root record
VisitRecord_NoParent(canvasStateMap, node, parentId, siblingOrder) ==
  [id |-> node.id, name |-> node.name, type |-> node.type, parentId |-> NoParent,
   order |-> siblingOrder, position |-> Pos(CENTER_X, START_Y + siblingOrder * NODE_GAP_Y),
   placed |-> TRUE]

\* visit numbering siblings from one
VisitRecord_OrderFromOne(canvasStateMap, node, parentId, siblingOrder) ==
  [id |-> node.id, name |-> node.name, type |-> node.type, parentId |-> parentId,
   order |-> siblingOrder + 1, position |-> Pos(CENTER_X, START_Y + siblingOrder * NODE_GAP_Y),
   placed |-> parentId = NoParent]

\* visit marking every record placed at its fallback position
VisitRecord_AllPlaced(canvasStateMap, node, parentId, siblingOrder) ==
  [id |-> node.id, name |-> node.name, type |-> node.type, parentId |-> parentId,
   order |-> siblingOrder, position |-> Pos(CENTER_X, START_Y + siblingOrder * NODE_GAP_Y),
   placed |-> TRUE]

\* the flat record pushed by visit(node, parentId, siblingOrder)
VisitRecord(canvasStateMap, node, parentId, siblingOrder) ==
  LET parentCanvas == IF parentId # NoParent THEN Get(canvasStateMap, parentId) ELSE Null
      hasCanvas == parentCanvas # Null /\ parentCanvas # Undefined
      placed == parentId = NoParent
                \/ (hasCanvas /\ Includes(parentCanvas.placedIds, node.id))
      recorded == IF hasCanvas THEN Get(parentCanvas.nodePositions, node.id) ELSE Undefined
      position == IF recorded # Undefined THEN recorded
                  ELSE Pos(CENTER_X, START_Y + siblingOrder * NODE_GAP_Y)
  IN [id |-> node.id, name |-> node.name, type |-> node.type, parentId |-> parentId,
      order |-> siblingOrder, position |-> position, placed |-> placed]

\* visit without the push of the node's own canvas edges
OwnEdges_None(canvasStateMap, node) == <<>>

\* the edges pushed when visit reaches a node: those of its own canvas state
OwnEdges(canvasStateMap, node) ==
  LET ownCanvas == Get(canvasStateMap, node.id)
  IN IF ownCanvas # Undefined
     THEN [i \in 1..Len(ownCanvas.edges) |->
             [id |-> ownCanvas.edges[i].id, source |-> ownCanvas.edges[i].source,
              target |-> ownCanvas.edges[i].target]]
     ELSE <<>>

RECURSIVE VisitNodes(_, _, _, _)
VisitNodes(canvasStateMap, node, parentId, siblingOrder) ==
  <<VisitRecord(canvasStateMap, node, parentId, siblingOrder)>>
  \o Flat([idx \in 1..Len(node.children) |->
             VisitNodes(canvasStateMap, node.children[idx], node.id, idx - 1)])

RECURSIVE VisitEdges(_, _)
VisitEdges(canvasStateMap, node) ==
  OwnEdges(canvasStateMap, node)
  \o Flat([idx \in 1..Len(node.children) |-> VisitEdges(canvasStateMap, node.children[idx])])

treeToWorkflow(root, canvasStateMap) ==
  [nodes |-> VisitNodes(canvasStateMap, root, NoParent, 0),
   edges |-> VisitEdges(canvasStateMap, root)]

(* ------------------------------------------------------------------ *)
(* types.ts: workflowToTree                                            *)
(* ------------------------------------------------------------------ *)

\* the call stack overflows (RangeError) instead of returning a tree
RangeError == [rangeError |-> TRUE]

\* byId.get(id): the last record with this id, Undefined when there is none
ById(workflow, id) ==
  LET hits == {i \in 1..Len(workflow.nodes) : workflow.nodes[i].id = id}
  IN IF hits = {} THEN Undefined
     ELSE workflow.nodes[CHOOSE i \in hits : \A j \in hits : j <= i]

\* buildNode(flat).  A call path longer than the number of records repeats a
\* record, and the recursion from a repeated record never ends: depth counts
\* the calls still allowed on the path.
RECURSIVE BuildNode(_, _, _)
BuildNode(workflow, flat, depth) ==
  IF depth = 0 THEN RangeError
  ELSE LET kids == SortByOrder(SelectSeq(workflow.nodes, LAMBDA n : n.parentId = flat.id))
           children == [i \in 1..Len(kids) |-> BuildNode(workflow, kids[i], depth - 1)]
       IN IF \E i \in 1..Len(children) : children[i] = RangeError
          THEN RangeError
          ELSE Node(flat.id, flat.name, flat.type, children)

\* a rebuild that throws when no record carries the root id
workflowToTree_Throws(workflow, rootId) ==
  LET rootFlat == ById(workflow, rootId)
  IN IF rootFlat = Undefined THEN RangeError
     ELSE BuildNode(workflow, rootFlat, Len(workflow.nodes) + 1)

workflowToTree(workflow, rootId) ==
  LET rootFlat == ById(workflow, rootId)
  IN IF rootFlat = Undefined THEN Null
     ELSE BuildNode(workflow, rootFlat, Len(workflow.nodes) + 1)

(* ------------------------------------------------------------------ *)
(* types.ts: workflowToCanvasStateMap                                  *)
(* ------------------------------------------------------------------ *)

\* { placedIds: [], nodePositions: {}, edges: [] }: no terminalNodes key
NewLevel == [placedIds |-> <<>>, nodePositions |-> <<>>, edges |-> <<>>]

\* one iteration of the node pass
NodePassStep(map, wn) ==
  IF wn.parentId = NoParent THEN map
  ELSE LET m1 == IF ~HasKey(map, wn.parentId) THEN Put(map, wn.parentId, NewLevel) ELSE map
           levelState == Get(m1, wn.parentId)
       IN IF wn.placed
          THEN Put(m1, wn.parentId,
                   [levelState EXCEPT !.placedIds = Append(@, wn.id),
                                      !.nodePositions = Put(@, wn.id, wn.position)])
          ELSE m1

RECURSIVE NodePass(_, _)
NodePass(map, wns) ==
  IF wns = <<>> THEN map ELSE NodePass(NodePassStep(map, Head(wns)), Tail(wns))

\* nodeParent.get(id): the parentId of the last record with this id and a
\* non-null parentId, NoEntry when there is none
\* a lookup that keeps the first record of an id instead of the last
NodeParent_First(workflow, id) ==
  LET hits == {i \in 1..Len(workflow.nodes) :
                 workflow.nodes[i].id = id /\ workflow.nodes[i].parentId # NoParent}
  IN IF hits = {} THEN NoEntry
     ELSE workflow.nodes[CHOOSE i \in hits : \A j \in hits : i <= j].parentId

NodeParent(workflow, id) ==
  LET hits == {i \in 1..Len(workflow.nodes) :
                 workflow.nodes[i].id = id /\ workflow.nodes[i].parentId # NoParent}
  IN IF hits = {} THEN NoEntry
     ELSE workflow.nodes[CHOOSE i \in hits : \A j \in hits : j <= i].parentId

\* one iteration of the edge pass
EdgePassStep(workflow, map, we) ==
  LET parentId == NodeParent(workflow, we.source)
  IN IF parentId = NoEntry THEN map
     ELSE LET m1 == IF ~HasKey(map, parentId) THEN Put(map, parentId, NewLevel) ELSE map
          IN Put(m1, parentId,
                 [Get(m1, parentId) EXCEPT
                    !.edges = Append(@, [id |-> we.id, source |-> we.source,
                                         target |-> we.target])])

RECURSIVE EdgePass(_, _, _)
EdgePass(workflow, map, wes) ==
  IF wes = <<>> THEN map
  ELSE EdgePass(workflow, EdgePassStep(workflow, map, Head(wes)), Tail(wes))

workflowToCanvasStateMap(workflow) ==
  EdgePass(workflow, NodePass(<<>>, workflow.nodes), workflow.edges)

(* ------------------------------------------------------------------ *)
(* types.ts: findNode, buildPath                                       *)
(* ------------------------------------------------------------------ *)

\* a search that keeps the last match in pre-order instead of the first
RECURSIVE findNode_Last(_, _)
findNode_Last(root, id) ==
  LET found == [i \in 1..Len(root.children) |-> findNode_Last(root.children[i], id)]
      hits == {i \in 1..Len(found) : found[i] # Null}
  IN IF hits # {} THEN found[CHOOSE i \in hits : \A j \in hits : j <= i]
     ELSE IF root.id = id THEN root ELSE Null

RECURSIVE findNode(_, _)
findNode(root, id) ==
  IF root.id = id THEN root
  ELSE LET found == [i \in 1..Len(root.children) |-> findNode(root.children[i], id)]
           hits == {i \in 1..Len(found) : found[i] # Null}
       IN IF hits = {} THEN Null
          ELSE found[CHOOSE i \in hits : \A j \in hits : i <= j]

RECURSIVE buildPath(_, _, _)
buildPath(root, targetId, current) ==
  LET path == Append(current, root)
  IN IF root.id = targetId THEN path
     ELSE LET results == [i \in 1..Len(root.children) |->
                            buildPath(root.children[i], targetId, path)]
              hits == {i \in 1..Len(results) : results[i] # NoPath}
          IN IF hits = {} THEN NoPath
             ELSE results[CHOOSE i \in hits : \A j \in hits : i <= j]

(* ------------------------------------------------------------------ *)
(* WorkflowEditor.tsx: cloneAndInsert                                  *)
(* ------------------------------------------------------------------ *)

RECURSIVE cloneAndInsert(_, _, _)
cloneAndInsert(node, parentId, newChild) ==
  IF node.id = parentId
  THEN [node EXCEPT !.children = Append(@, newChild)]
  ELSE [node EXCEPT !.children =
          [i \in 1..Len(node.children) |-> cloneAndInsert(node.children[i], parentId, newChild)]]

(* ------------------------------------------------------------------ *)
(* JSON.stringify({ tree, canvasStateMap }) as the sequence of its tokens *)
(* ------------------------------------------------------------------ *)

RECURSIVE StringifyNode(_)
StringifyNode(n) ==
  <<"{id:", n.id, ",name:", n.name, ",type:", n.type, ",children:[">>
  \o Flat([i \in 1..Len(n.children) |-> StringifyNode(n.children[i])])
  \o <<"]}">>

StringifyPos(p) == <<"{x:", ToString(p.x), ",y:", ToString(p.y), "}">>

StringifyEdge(e) == <<"{id:", e.id, ",source:", e.source, ",target:", e.target, "}">>

\* terminalNodes is written only for a level state that has the key
StringifyLevel(st) ==
  <<"{placedIds:[">> \o st.placedIds
  \o <<"],nodePositions:{">>
  \o Flat([i \in 1..Len(st.nodePositions) |->
             <<st.nodePositions[i].key, ":">> \o StringifyPos(st.nodePositions[i].val)])
  \o <<"},edges:[">>
  \o Flat([i \in 1..Len(st.edges) |-> StringifyEdge(st.edges[i])])
  \o <<"]">>
  \o (IF "terminalNodes" \in DOMAIN st
      THEN <<",terminalNodes:[">>
           \o Flat([i \in 1..Len(st.terminalNodes) |->
                      <<"{id:", st.terminalNodes[i].id, ",kind:", st.terminalNodes[i].kind,
                        ",position:">> \o StringifyPos(st.terminalNodes[i].position) \o <<"}">>])
           \o <<"]">>
      ELSE <<>>)
  \o <<"}">>

Stringify(t, canvasStateMap) ==
  <<"{tree:">> \o StringifyNode(t) \o <<",canvasStateMap:{">>
  \o Flat([i \in 1..Len(canvasStateMap) |->
             <<canvasStateMap[i].key, ":">> \o StringifyLevel(canvasStateMap[i].val)])
  \o <<"}}">>

(* ------------------------------------------------------------------ *)
(* WorkflowCanvas.tsx: initial state of a mounted canvas, emitState    *)
(* ------------------------------------------------------------------ *)

Fallback(idx) == Pos(CENTER_X, START_Y + idx * NODE_GAP_Y)

buildInitialNodes(allChildren, initialState) ==
  LET shown == IF initialState = Undefined THEN <<>>
               ELSE SelectSeq(allChildren, LAMBDA c : Includes(initialState.placedIds, c.id))
      placed == [i \in 1..Len(shown) |->
                   LET recorded == Get(initialState.nodePositions, shown[i].id)
                   IN [id |-> shown[i].id, type |-> "block",
                       position |-> IF recorded # Undefined THEN recorded ELSE Fallback(i - 1),
                       data |-> shown[i].name]]
      marks == IF initialState # Undefined /\ "terminalNodes" \in DOMAIN initialState
               THEN initialState.terminalNodes ELSE <<>>
      terminals == [i \in 1..Len(marks) |->
                      [id |-> marks[i].id, type |-> "terminal",
                       position |-> marks[i].position, data |-> marks[i].kind]]
  IN terminals \o placed

buildInitialEdges(initialState) ==
  IF initialState = Undefined THEN <<>>
  ELSE [i \in 1..Len(initialState.edges) |->
          [id |-> initialState.edges[i].id, source |-> initialState.edges[i].source,
           target |-> initialState.edges[i].target]]

InitialTerminalIds(initialState) ==
  IF initialState # Undefined /\ "terminalNodes" \in DOMAIN initialState
  THEN {initialState.terminalNodes[i].id : i \in 1..Len(initialState.terminalNodes)}
  ELSE {}

RECURSIVE PositionsOf(_, _, _)
PositionsOf(acc, currentNodes, termIds) ==
  IF currentNodes = <<>> THEN acc
  ELSE PositionsOf(IF Head(currentNodes).id \in termIds THEN acc
                   ELSE Put(acc, Head(currentNodes).id, Head(currentNodes).position),
                   Tail(currentNodes), termIds)

\* the level state that emitState hands to onStateChange
emitState(currentNodes, currentEdges, currentPlacedIds, termIds) ==
  LET marks == SelectSeq(currentNodes, LAMBDA n : n.id \in termIds)
  IN [placedIds |-> currentPlacedIds,
      nodePositions |-> PositionsOf(<<>>, currentNodes, termIds),
      edges |-> [i \in 1..Len(currentEdges) |->
                   [id |-> currentEdges[i].id, source |-> currentEdges[i].source,
                    target |-> currentEdges[i].target]],
      terminalNodes |-> [i \in 1..Len(marks) |->
                           [id |-> marks[i].id, kind |-> marks[i].data,
                            position |-> marks[i].position]]]

\* @xyflow/react addEdge: the id it gives a connection; an existing connection is not added again
EdgeId(source, target) == "xy-edge__" \o source \o "-" \o target
addEdge(source, target, currentEdges) ==
  IF \E i \in 1..Len(currentEdges) :
       currentEdges[i].source = source /\ currentEdges[i].target = target
  THEN currentEdges
  ELSE Append(currentEdges, [id |-> EdgeId(source, target), source |-> source, target |-> target])

(* ------------------------------------------------------------------ *)
(* Documents the record store can hold when the editor opens           *)
(* ------------------------------------------------------------------ *)

TreeA == Node(RecipeId, RecipeName, "RECIPE", <<Node("a", "Mix", "PROCEDURE", <<>>)>>)
CanvasA ==
  <<[key |-> RecipeId,
     val |-> [placedIds |-> <<"a">>,
              nodePositions |-> <<[key |-> "a", val |-> Pos(300, 160)]>>,
              edges |-> <<>>,
              terminalNodes |-> <<>>]]>>
\* one procedure, placed and dragged to (300, 160)
DocA == treeToWorkflow(TreeA, CanvasA)

TreeDeep ==
  Node(RecipeId, RecipeName, "RECIPE",
       <<Node("b", "Mix", "PROCEDURE", <<>>),
         Node("a", "Heat", "PROCEDURE",
              <<Node("c", "Unit", "UNIT_PROCEDURE",
                     <<Node("d", "Op", "OPERATION",
                            <<Node("b", "Hold", "PHASE", <<>>)>>)>>)>>)>>)
\* a full-depth tree in which a phase carries the id of a procedure
DocDeep == treeToWorkflow(TreeDeep, <<>>)

\* a document written for another root id: no record has the recipe's id
DocLegacy ==
  treeToWorkflow(Node("OLD", RecipeName, "RECIPE", <<Node("a", "Mix", "PROCEDURE", <<>>)>>),
                 <<[key |-> "OLD",
                    val |-> [placedIds |-> <<"a">>,
                             nodePositions |-> <<[key |-> "a", val |-> Pos(300, 160)]>>,
                             edges |-> <<>>, terminalNodes |-> <<>>]]>>)

\* what the editor saves after a child with the recipe's own id was added
DocSelf ==
  treeToWorkflow(Node(RecipeId, RecipeName, "RECIPE",
                      <<Node(RecipeId, "Step", "PROCEDURE", <<>>)>>), <<>>)

\* a stored document with no node records
DocEmpty == [nodes |-> <<>>, edges |-> <<>>]

\* a partially written document: record x names a parent no record carries,
\* record y hangs below x
DocOrphan ==
  [nodes |-> DocA.nodes \o
             <<[id |-> "x", name |-> "Lost", type |-> "PROCEDURE", parentId |-> "ghost",
                order |-> 0, position |-> Pos(120, 80), placed |-> TRUE],
               [id |-> "y", name |-> "Below", type |-> "UNIT_PROCEDURE", parentId |-> "x",
                order |-> 0, position |-> Pos(300, 40), placed |-> FALSE]>>,
   edges |-> <<>>]

StoredDocs == {Null, DocA, DocLegacy, DocSelf}

(* ------------------------------------------------------------------ *)
(* State                                                               *)
(* ------------------------------------------------------------------ *)

VARIABLES
  tree,            \* WorkflowEditor: HierarchyNode or Null
  selectedId,
  loading,
  saving,
  error,           \* NoError or the message shown instead of the editor
  canvasStateMap,
  savedSnapshot,   \* tokens of the JSON text; <<>> is ''
  showExitDialog,
  isAdding,
  nodes,           \* WorkflowCanvas (mounted with key = selectedId)
  edges,
  placedIds,
  terminalIds,
  stored,          \* record store: the recipe's workflow document or Null
  pending,         \* handleSave awaiting recipeApi.update: what its closure holds, or Null
  toast,           \* the last toast shown
  route,           \* "workflow": the editor is open; "edit": navigated away
  ops,             \* insertions and canvas notifications so far
  saves            \* save requests so far

vars == <<tree, selectedId, loading, saving, error, canvasStateMap, savedSnapshot,
          showExitDialog, isAdding, nodes, edges, placedIds, terminalIds,
          stored, pending, toast, route, ops, saves>>

editorVars == <<tree, selectedId, loading, saving, error, canvasStateMap, savedSnapshot,
                showExitDialog, isAdding>>
canvasVars == <<nodes, edges, placedIds, terminalIds>>

NoError == "null"

(* ------------------------------------------------------------------ *)
(* WorkflowEditor.tsx: derived state                                   *)
(* ------------------------------------------------------------------ *)

selectedNode == IF tree # Null THEN findNode(tree, selectedId) ELSE Null
childType == IF selectedNode # Null THEN ISA88_CHILD_TYPE(selectedNode.type) ELSE "null"
canAddChild == childType # "null"
allChildren == IF selectedNode # Null THEN selectedNode.children ELSE <<>>

\* mutant: dirty as soon as a snapshot exists, without comparing
isDirty_NoCompare == tree # Null /\ savedSnapshot # <<>>

isDirty ==
  IF tree = Null \/ savedSnapshot = <<>> THEN FALSE
  ELSE Stringify(tree, canvasStateMap) # savedSnapshot

\* the editor (header, tree, canvas) is on screen and accepts input
Rendered == route = "workflow" /\ ~loading /\ error = NoError /\ tree # Null
Interactive == Rendered /\ ~showExitDialog

RECURSIVE TreeIds(_)
TreeIds(n) == {n.id} \cup UNION {TreeIds(n.children[i]) : i \in 1..Len(n.children)}

RECURSIVE TreeSize(_)
TreeSize(n) ==
  LET sizes == [i \in 1..Len(n.children) |-> TreeSize(n.children[i])]
      Sum[k \in 0..Len(sizes)] == IF k = 0 THEN 0 ELSE Sum[k - 1] + sizes[k]
  IN 1 + Sum[Len(sizes)]

\* the canvas React mounts for level id of tree t
MountNodes(t, id, map) ==
  LET sel == findNode(t, id)
  IN buildInitialNodes(IF sel # Null THEN sel.children ELSE <<>>, Get(map, id))
MountPlacedIds(map, id) ==
  IF Get(map, id) # Undefined THEN Get(map, id).placedIds ELSE <<>>

(* ------------------------------------------------------------------ *)
(* Init                                                                *)
(* ------------------------------------------------------------------ *)

InitWith(docs) ==
  /\ tree = Null
  /\ selectedId = ""
  /\ loading = TRUE
  /\ saving = FALSE
  /\ error = NoError
  /\ canvasStateMap = <<>>
  /\ savedSnapshot = <<>>
  /\ showExitDialog = FALSE
  /\ isAdding = FALSE
  /\ nodes = <<>>
  /\ edges = <<>>
  /\ placedIds = <<>>
  /\ terminalIds = {}
  /\ stored \in docs
  /\ pending = Null
  /\ toast = "none"
  /\ route = "workflow"
  /\ ops = 0
  /\ saves = 0

Init == InitWith(StoredDocs)

(* ------------------------------------------------------------------ *)
(* WorkflowEditor.tsx: the load effect                                 *)
(* ------------------------------------------------------------------ *)

\* mutant: the first snapshot is taken with an empty map
initialCSM_Empty(procedureLogic) == <<>>

\* the canvas-state map the load effect serialises into the first snapshot
initialCSM(procedureLogic) ==
  IF procedureLogic # Null /\ Len(procedureLogic.nodes) > 0
  THEN workflowToCanvasStateMap(procedureLogic)
  ELSE <<>>

\* recipeApi.getById resolves with the stored recipe
LoadResolves ==
  /\ route = "workflow" /\ loading
  /\ LET hasDoc == stored # Null /\ Len(stored.nodes) > 0
         restored == IF hasDoc THEN workflowToTree(stored, RecipeId) ELSE Null
         root == IF restored # Null THEN restored
                 ELSE Node(RecipeId, RecipeName, "RECIPE", <<>>)
         nextMap == IF hasDoc THEN workflowToCanvasStateMap(stored) ELSE canvasStateMap
     IN IF restored = RangeError
        THEN \* workflowToTree throws: catch, finally
             /\ error' = "Maximum call stack size exceeded"
             /\ loading' = FALSE
             /\ UNCHANGED <<tree, selectedId, canvasStateMap, savedSnapshot, canvasVars>>
        ELSE /\ canvasStateMap' = nextMap
             /\ tree' = root
             /\ selectedId' = root.id
             /\ savedSnapshot' = Stringify(root, initialCSM(stored))
             /\ loading' = FALSE
             /\ nodes' = MountNodes(root, root.id, nextMap)
             /\ edges' = buildInitialEdges(Get(nextMap, root.id))
             /\ placedIds' = MountPlacedIds(nextMap, root.id)
             /\ terminalIds' = InitialTerminalIds(Get(nextMap, root.id))
             /\ UNCHANGED error
  /\ UNCHANGED <<saving, showExitDialog, isAdding, stored, pending, toast, route, ops, saves>>

\* recipeApi.getById throws (unknown recipe, store unavailable)
LoadRejects ==
  /\ route = "workflow" /\ loading
  /\ error' = "Recipe not found"
  /\ loading' = FALSE
  /\ UNCHANGED <<tree, selectedId, saving, canvasStateMap, savedSnapshot, showExitDialog,
                 isAdding, canvasVars, stored, pending, toast, route, ops, saves>>

(* ------------------------------------------------------------------ *)
(* WorkflowEditor.tsx: handlers                                        *)
(* ------------------------------------------------------------------ *)

\* a click on a node of the hierarchy tree or on a breadcrumb
handleSelect(id) ==
  /\ Interactive
  /\ id \in TreeIds(tree)
  /\ selectedId' = id
  /\ isAdding' = FALSE
  /\ IF id # selectedId
     THEN \* the canvas is keyed by selectedId: a new one is mounted
          /\ nodes' = MountNodes(tree, id, canvasStateMap)
          /\ edges' = buildInitialEdges(Get(canvasStateMap, id))
          /\ placedIds' = MountPlacedIds(canvasStateMap, id)
          /\ terminalIds' = InitialTerminalIds(Get(canvasStateMap, id))
     ELSE UNCHANGED canvasVars
  /\ UNCHANGED <<tree, loading, saving, error, canvasStateMap, savedSnapshot, showExitDialog,
                 stored, pending, toast, route, ops, saves>>

handleStartAdd ==
  /\ Interactive
  /\ canAddChild
  /\ ~isAdding
  /\ isAdding' = TRUE
  /\ UNCHANGED <<tree, selectedId, loading, saving, error, canvasStateMap, savedSnapshot,
                 showExitDialog, canvasVars, stored, pending, toast, route, ops, saves>>

\* the Add button (or Enter) of the inline form, with the trimmed inputs
ConfirmAdd(newElementId, newElementName, limit) ==
  /\ Interactive
  /\ isAdding /\ childType # "null"
  /\ ops < limit
  /\ tree # Null /\ selectedNode # Null
  /\ newElementId # "" /\ newElementName # ""
  /\ LET newChild == Node(newElementId, newElementName, childType, <<>>)
     IN tree' = cloneAndInsert(tree, selectedId, newChild)
  /\ isAdding' = FALSE
  /\ ops' = ops + 1
  /\ UNCHANGED <<selectedId, loading, saving, error, canvasStateMap, savedSnapshot,
                 showExitDialog, canvasVars, stored, pending, toast, route, saves>>

handleConfirmAdd ==
  \E newElementId \in Ids, newElementName \in NewNames :
    ConfirmAdd(newElementId, newElementName, MaxOps)

handleCancelAdd ==
  /\ Interactive
  /\ isAdding
  /\ isAdding' = FALSE
  /\ UNCHANGED <<tree, selectedId, loading, saving, error, canvasStateMap, savedSnapshot,
                 showExitDialog, canvasVars, stored, pending, toast, route, ops, saves>>

\* the notification replaces the whole map by the one level it is about
handleCanvasStateChange_Only(parentId, state) ==
  canvasStateMap' = <<[key |-> parentId, val |-> state]>>

\* the notification is received and not folded into the map
handleCanvasStateChange_Ignored(parentId, state) ==
  UNCHANGED canvasStateMap

handleCanvasStateChange(parentId, state) ==
  canvasStateMap' = Put(canvasStateMap, parentId, state)

\* a Save button that stays enabled while a request is in flight
handleSave_NotDisabled ==
  /\ Interactive
  /\ tree # Null /\ isDirty
  /\ saves < MaxSaves
  /\ saving' = TRUE
  /\ pending' = [tree |-> tree, canvasStateMap |-> canvasStateMap,
                 workflow |-> treeToWorkflow(tree, canvasStateMap)]
  /\ saves' = saves + 1
  /\ UNCHANGED <<tree, selectedId, loading, error, canvasStateMap, savedSnapshot,
                 showExitDialog, isAdding, canvasVars, stored, toast, route, ops>>

\* the Save button (disabled while saving or clean), up to the await
handleSave ==
  /\ Interactive
  /\ ~saving /\ isDirty
  /\ tree # Null /\ isDirty
  /\ saves < MaxSaves
  /\ saving' = TRUE
  /\ pending' = [tree |-> tree, canvasStateMap |-> canvasStateMap,
                 workflow |-> treeToWorkflow(tree, canvasStateMap)]
  /\ saves' = saves + 1
  /\ UNCHANGED <<tree, selectedId, loading, error, canvasStateMap, savedSnapshot,
                 showExitDialog, isAdding, canvasVars, stored, toast, route, ops>>

\* the success branch, were it to serialise the state of the latest render
SaveResolves_SnapshotLive ==
  /\ pending # Null
  /\ stored' = pending.workflow
  /\ toast' = "success"
  /\ pending' = Null
  /\ IF route = "workflow"
     THEN /\ savedSnapshot' = Stringify(tree, canvasStateMap)
          /\ saving' = FALSE
     ELSE UNCHANGED <<savedSnapshot, saving>>
  /\ UNCHANGED <<tree, selectedId, loading, error, canvasStateMap, showExitDialog, isAdding,
                 canvasVars, route, ops, saves>>

\* recipeApi.update resolves: the store holds the document that was sent
SaveResolves ==
  /\ pending # Null
  /\ stored' = pending.workflow
  /\ toast' = "success"
  /\ pending' = Null
  /\ IF route = "workflow"
     THEN /\ savedSnapshot' = Stringify(pending.tree, pending.canvasStateMap)
          /\ saving' = FALSE
     ELSE UNCHANGED <<savedSnapshot, saving>>
  /\ UNCHANGED <<tree, selectedId, loading, error, canvasStateMap, showExitDialog, isAdding,
                 canvasVars, route, ops, saves>>

\* the failure branch, were it to record the snapshot as the success branch does
SaveRejects_MarksSaved ==
  /\ pending # Null
  /\ toast' = "error"
  /\ saving' = FALSE
  /\ pending' = Null
  /\ savedSnapshot' = IF route = "workflow"
                      THEN Stringify(pending.tree, pending.canvasStateMap)
                      ELSE savedSnapshot
  /\ UNCHANGED <<tree, selectedId, loading, error, canvasStateMap,
                 showExitDialog, isAdding, canvasVars, stored, route, ops, saves>>

\* the failure branch without the finally block
SaveRejects_NoFinally ==
  /\ pending # Null
  /\ toast' = "error"
  /\ pending' = Null
  /\ UNCHANGED <<tree, selectedId, loading, saving, error, canvasStateMap, savedSnapshot,
                 showExitDialog, isAdding, canvasVars, stored, route, ops, saves>>

\* recipeApi.update throws: the store keeps what it had
SaveRejects ==
  /\ pending # Null
  /\ toast' = "error"
  /\ saving' = FALSE
  /\ pending' = Null
  /\ UNCHANGED <<tree, selectedId, loading, error, canvasStateMap, savedSnapshot,
                 showExitDialog, isAdding, canvasVars, stored, route, ops, saves>>

\* navigate(...) away from the editor: the component is unmounted and its
\* state is gone; a request already sent is still answered
Unmount ==
  /\ route' = "edit"
  /\ tree' = Null
  /\ selectedId' = ""
  /\ loading' = TRUE
  /\ saving' = FALSE
  /\ error' = NoError
  /\ canvasStateMap' = <<>>
  /\ savedSnapshot' = <<>>
  /\ showExitDialog' = FALSE
  /\ isAdding' = FALSE
  /\ nodes' = <<>> /\ edges' = <<>> /\ placedIds' = <<>> /\ terminalIds' = {}

\* the Exit button
handleExit ==
  /\ Interactive
  /\ IF isDirty
     THEN /\ showExitDialog' = TRUE
          /\ UNCHANGED <<tree, selectedId, loading, saving, error, canvasStateMap,
                         savedSnapshot, isAdding, canvasVars, route>>
     ELSE Unmount
  /\ UNCHANGED <<stored, pending, toast, ops, saves>>

\* the 'Recipes' breadcrumb button
BreadcrumbRecipes ==
  /\ Interactive
  /\ Unmount
  /\ UNCHANGED <<stored, pending, toast, ops, saves>>

\* exit dialog: Keep editing
DialogKeepEditing ==
  /\ Rendered /\ showExitDialog
  /\ showExitDialog' = FALSE
  /\ UNCHANGED <<tree, selectedId, loading, saving, error, canvasStateMap, savedSnapshot,
                 isAdding, canvasVars, stored, pending, toast, route, ops, saves>>

\* exit dialog: Exit without saving
DialogExitWithoutSaving ==
  /\ Rendered /\ showExitDialog
  /\ Unmount
  /\ UNCHANGED <<stored, pending, toast, ops, saves>>

(* ------------------------------------------------------------------ *)
(* WorkflowCanvas.tsx: handlers                                        *)
(* ------------------------------------------------------------------ *)

\* a panel that lists every child, placed or not
unplaced_All == allChildren

unplaced == SelectSeq(allChildren, LAMBDA c : ~Includes(placedIds, c.id))

\* what every canvas handler does after computing its next nodes / edges / placedIds
Notify(nextNodes, nextEdges, nextPlacedIds) ==
  /\ nodes' = nextNodes
  /\ edges' = nextEdges
  /\ placedIds' = nextPlacedIds
  /\ handleCanvasStateChange(selectedId,
                             emitState(nextNodes, nextEdges, nextPlacedIds, terminalIds))
  /\ ops' = ops + 1
  /\ UNCHANGED <<tree, selectedId, loading, saving, error, savedSnapshot, showExitDialog,
                 isAdding, terminalIds, stored, pending, toast, route, saves>>

handlePlace ==
  /\ Interactive /\ ops < MaxOps
  /\ \E k \in 1..Len(unplaced) :
       LET child == unplaced[k]
           placedBlockCount == Len(SelectSeq(nodes, LAMBDA n : n.id \notin terminalIds))
           newNode == [id |-> child.id, type |-> "block",
                       position |-> Pos(CENTER_X - 90,
                                        START_Y + 120 + placedBlockCount * NODE_GAP_Y),
                       data |-> child.name]
       IN Notify(Append(nodes, newNode), edges, Append(placedIds, child.id))

\* onNodesChange with a position change: a node was dragged to p
NodesChangePosition ==
  /\ Interactive /\ ops < MaxOps
  /\ \E i \in 1..Len(nodes), p \in DragPositions :
       Notify([nodes EXCEPT ![i].position = p], edges, placedIds)

\* onNodesChange with a change that moves nothing (select, dimensions)
NodesChangeSelect ==
  /\ Interactive /\ ops < MaxOps
  /\ Len(nodes) > 0
  /\ Notify(nodes, edges, placedIds)

\* onNodesChange with a remove change: a block was deleted from the canvas
NodesChangeRemove ==
  /\ Interactive /\ ops < MaxOps
  /\ \E i \in 1..Len(nodes) :
       /\ nodes[i].type # "terminal"
       /\ Notify(SubSeq(nodes, 1, i - 1) \o SubSeq(nodes, i + 1, Len(nodes)),
                 edges, placedIds)

\* onEdgesChange with a remove change
EdgesChangeRemove ==
  /\ Interactive /\ ops < MaxOps
  /\ \E i \in 1..Len(edges) :
       Notify(nodes, SubSeq(edges, 1, i - 1) \o SubSeq(edges, i + 1, Len(edges)),
              placedIds)

\* onConnect: a connection drawn between two nodes of the canvas
onConnect ==
  /\ Interactive /\ ops < MaxOps
  /\ \E i \in 1..Len(nodes), j \in 1..Len(nodes) :
       /\ i # j
       /\ Notify(nodes, addEdge(nodes[i].id, nodes[j].id, edges), placedIds)

(* ------------------------------------------------------------------ *)
(* Specifications                                                      *)
(* ------------------------------------------------------------------ *)

Next ==
  \/ LoadResolves
  \/ LoadRejects
  \/ \E id \in Ids \cup {"c", "d"} : handleSelect(id)
  \/ handleStartAdd
  \/ handleConfirmAdd
  \/ handleCancelAdd
  \/ handleSave
  \/ SaveResolves
  \/ SaveRejects
  \/ handleExit
  \/ BreadcrumbRecipes
  \/ DialogKeepEditing
  \/ DialogExitWithoutSaving
  \/ handlePlace
  \/ NodesChangePosition
  \/ NodesChangeSelect
  \/ NodesChangeRemove
  \/ EdgesChangeRemove
  \/ onConnect

Spec == Init /\ [][Next]_vars

\* The record store answers every request: a load and a save that were started
\* are eventually resolved or rejected
InitLive == InitWith({Null, DocSelf})
\* every handler but the two that need a connection on the canvas
NextLive ==
  \/ LoadResolves
  \/ LoadRejects
  \/ \E id \in Ids : handleSelect(id)
  \/ handleStartAdd
  \/ handleConfirmAdd
  \/ handleCancelAdd
  \/ handleSave
  \/ SaveResolves
  \/ SaveRejects
  \/ handleExit
  \/ BreadcrumbRecipes
  \/ DialogKeepEditing
  \/ DialogExitWithoutSaving
  \/ handlePlace
  \/ NodesChangePosition
  \/ NodesChangeSelect
  \/ NodesChangeRemove
SpecLive ==
  /\ InitLive /\ [][NextLive]_vars
  /\ WF_vars(LoadResolves \/ LoadRejects)
  /\ WF_vars(SaveResolves \/ SaveRejects)

\* The tree alone: a new recipe or the full-depth document, selections and insertions
InitTree == InitWith({Null, DocDeep})

TreeConfirmAdd ==
  /\ tree # Null /\ TreeSize(tree) < MaxTreeNodes
  /\ \E newElementId \in Ids, newElementName \in NewNames :
       ConfirmAdd(newElementId, newElementName, MaxTreeAdds)

NextTree ==
  \/ LoadResolves
  \/ \E id \in Ids \cup {"c", "d"} : handleSelect(id)
  \/ handleStartAdd
  \/ TreeConfirmAdd
  \/ handleCancelAdd

SpecTree == InitTree /\ [][NextTree]_vars

\* Loading any kind of stored document, then selections and insertions
LoadDocs == {Null, DocEmpty, DocLegacy, DocA, DocDeep, DocOrphan}
InitDocs == InitWith(LoadDocs)
SpecDocs == InitDocs /\ [][NextTree]_vars

\* The save/load transform on its own: a tree and a canvas-state map of the
\* shapes the canvas hands to the editor are flattened, and the document is
\* rebuilt.  pending holds the rebuilt tree and map next to the document.
TreeAB ==
  Node(RecipeId, RecipeName, "RECIPE",
       <<Node("a", "Mix", "PROCEDURE", <<>>), Node("b", "Heat", "PROCEDURE", <<>>)>>)

TerminalNode(id, kind, position) == [id |-> id, kind |-> kind, position |-> position]
\* the terminalNodes lists of a level: none, Begin, Begin and End
TerminalLists ==
  {<<>>,
   <<TerminalNode("begin", "begin", Pos(300, 40))>>,
   <<TerminalNode("begin", "begin", Pos(300, 40)), TerminalNode("end", "end", Pos(300, 400))>>}

\* the ids of the first children of a node, in order
ChildIdsUpTo(n, k) == [i \in 1..k |-> n.children[i].id]

\* the level states emitState can hand over for the children of a node
LevelStatesOf(n) ==
  {[placedIds |-> ChildIdsUpTo(n, k),
    nodePositions |-> [i \in 1..(IF k > 0 /\ recorded THEN k ELSE 0) |->
                         [key |-> n.children[i].id, val |-> Pos(210 + 90 * i, 160 * i)]],
    edges |-> IF k >= 2 /\ connected
              THEN <<[id |-> EdgeId(n.children[1].id, n.children[2].id),
                      source |-> n.children[1].id, target |-> n.children[2].id]>>
              ELSE <<>>,
    terminalNodes |-> marks] :
     k \in 0..Len(n.children), recorded \in BOOLEAN, connected \in BOOLEAN,
     marks \in TerminalLists}

TransformMapsOf(t) == {<<>>} \cup {<<[key |-> t.id, val |-> st]>> : st \in LevelStatesOf(t)}

InitTransform ==
  /\ tree \in {TreeA, TreeAB, TreeDeep}
  /\ canvasStateMap \in TransformMapsOf(tree)
  /\ selectedId = tree.id
  /\ loading = FALSE
  /\ saving = FALSE
  /\ error = NoError
  /\ savedSnapshot = <<>>
  /\ showExitDialog = FALSE
  /\ isAdding = FALSE
  /\ nodes = MountNodes(tree, tree.id, canvasStateMap)
  /\ edges = buildInitialEdges(Get(canvasStateMap, tree.id))
  /\ placedIds = MountPlacedIds(canvasStateMap, tree.id)
  /\ terminalIds = InitialTerminalIds(Get(canvasStateMap, tree.id))
  /\ stored = Null
  /\ pending = Null
  /\ toast = "none"
  /\ route = "workflow"
  /\ ops = 0
  /\ saves = 0

\* treeToWorkflow(tree, canvasStateMap), as handleSave calls it
Flatten ==
  /\ stored = Null
  /\ stored' = treeToWorkflow(tree, canvasStateMap)
  /\ UNCHANGED <<editorVars, canvasVars, pending, toast, route, ops, saves>>

\* workflowToTree and workflowToCanvasStateMap, as the load effect calls them
Rebuild ==
  /\ stored # Null /\ pending = Null
  /\ pending' = [tree |-> workflowToTree(stored, tree.id),
                 canvasStateMap |-> workflowToCanvasStateMap(stored),
                 workflow |-> stored]
  /\ UNCHANGED <<editorVars, canvasVars, stored, toast, route, ops, saves>>

NextTransform == Flatten \/ Rebuild

SpecTransform == InitTransform /\ [][NextTransform]_vars

\* Rebuild of stored documents: the documents Flatten writes, with edge
\* records added whose source is the root, or no record at all
FlatEdge(source, target) == [id |-> EdgeId(source, target), source |-> source, target |-> target]
StrayEdgeLists ==
  {<<>>,
   <<FlatEdge(RecipeId, "a")>>,
   <<FlatEdge("zz", "a")>>,
   <<FlatEdge("a", "zz")>>,
   <<FlatEdge("zz", "a"), FlatEdge(RecipeId, "b"), FlatEdge("a", "b")>>}

RebuildDocs ==
  {[nodes |-> treeToWorkflow(t, m).nodes, edges |-> stray \o treeToWorkflow(t, m).edges] :
     <<t, m>> \in {<<TreeAB, m>> : m \in TransformMapsOf(TreeAB)}
                 \cup {<<TreeDeep, m>> : m \in TransformMapsOf(TreeDeep)},
     stray \in StrayEdgeLists}

InitRebuild == InitWith(RebuildDocs)

\* workflowToTree and workflowToCanvasStateMap applied to the stored document
RebuildStored ==
  /\ stored # Null /\ pending = Null
  /\ pending' = [tree |-> workflowToTree(stored, RecipeId),
                 canvasStateMap |-> workflowToCanvasStateMap(stored),
                 workflow |-> stored]
  /\ UNCHANGED <<editorVars, canvasVars, stored, toast, route, ops, saves>>

NextRebuild == RebuildStored

SpecRebuild == InitRebuild /\ [][NextRebuild]_vars

(* ------------------------------------------------------------------ *)
(* Properties                                                          *)
(* ------------------------------------------------------------------ *)

\* the serialisation of the live tree and map differs from the snapshot
LiveDiffers == tree # Null /\ Stringify(tree, canvasStateMap) # savedSnapshot

\* the session is in Editing: loaded, on screen, no save in flight
Editing == Rendered /\ ~saving

RECURSIVE Contained(_)
Contained(n) ==
  \A i \in 1..Len(n.children) :
    n.children[i].type = ISA88_CHILD_TYPE(n.type) /\ Contained(n.children[i])

RECURSIVE PhasesAreLeaves(_)
PhasesAreLeaves(n) ==
  /\ n.type = "PHASE" => n.children = <<>>
  /\ \A i \in 1..Len(n.children) : PhasesAreLeaves(n.children[i])

\* C1: rebuilding the flattened live tree gives back the live tree (ids, names,
\* kinds, child order), for every tree the editor reaches by insertions.
C1_TreeRoundTrip ==
  tree # Null => workflowToTree(treeToWorkflow(tree, canvasStateMap), tree.id) = tree

AsSet(seq) == {seq[i] : i \in 1..Len(seq)}

\* the level state of key L, an absent level read as the empty one
LevelOrEmpty(map, L) == IF HasKey(map, L) THEN Get(map, L) ELSE NewLevel

RECURSIVE IdList(_)
IdList(n) == <<n.id>> \o Flat([i \in 1..Len(n.children) |-> IdList(n.children[i])])
\* no two nodes of the tree carry the same id
UniqueIds(n) == Cardinality(AsSet(IdList(n))) = Len(IdList(n))

RECURSIVE ParentIds(_)
\* the ids of the nodes that have children
ParentIds(n) ==
  (IF n.children # <<>> THEN {n.id} ELSE {})
  \cup UNION {ParentIds(n.children[i]) : i \in 1..Len(n.children)}

\* Rebuild(Flatten(tree, map)), the map half
Rebuilt == workflowToCanvasStateMap(treeToWorkflow(tree, canvasStateMap))

\* level L of the rebuilt map has the placed ids, the recorded positions of
\* the placed ids and the connections that level L of the live map has
SameLevel(L) ==
  LET c == Get(canvasStateMap, L)
      r == LevelOrEmpty(Rebuilt, L)
  IN /\ AsSet(r.placedIds) = AsSet(c.placedIds)
     /\ \A id \in AsSet(c.placedIds) :
          Get(c.nodePositions, id) # Undefined
            => Get(r.nodePositions, id) = Get(c.nodePositions, id)
     /\ r.edges = c.edges

Occurrences(id) ==
  Cardinality({i \in 1..Len(IdList(tree)) : IdList(tree)[i] = id})

C3_LoadLeavesClean ==
  [][(loading /\ ~loading' /\ error' = NoError)
       => /\ Editing'
          /\ savedSnapshot' = Stringify(tree', canvasStateMap')
          /\ ~isDirty']_vars

\* C3 witness: a session just loaded from a stored document, with a restored map
C3_Witness ==
  /\ Editing /\ ops = 0 /\ saves = 0
  /\ stored = DocA /\ canvasStateMap # <<>>
  /\ savedSnapshot = Stringify(tree, canvasStateMap)

\* C7: a document is handed to the record store only from a state with a tree
\* whose serialisation (with the map) differs from the snapshot.
C7_SaveOnlyWhenDirty ==
  [][(pending = Null /\ pending' # Null) => (tree # Null /\ LiveDiffers)]_vars

\* C7 witness: a save request is in flight
C7_Witness == saving /\ pending # Null /\ pending.workflow.nodes # <<>>

\* a step that mutates the session: an insertion or a canvas notification
Mutation == ops' = ops + 1
\* handleConfirmAdd inserted a child
Inserted == Mutation /\ isAdding /\ ~isAdding'
\* recipeApi.update was answered while the editor is open
SaveSucceeded == pending # Null /\ pending' = Null /\ toast' = "success" /\ route = "workflow"
SaveFailed == pending # Null /\ pending' = Null /\ toast' = "error" /\ route = "workflow"

\* C4 as claimed: from Editing with dirty false, every insertion and every canvas
\* notification folded into the map makes dirty true.
C4_AnyMutationDirties ==
  [][(Editing /\ ~LiveDiffers /\ Mutation) => LiveDiffers']_vars

\* C4 amended: from Editing with dirty false, an insertion, a placement and a
\* connection that was not there yet make dirty true; any canvas notification
\* makes dirty true exactly when it changes the tree or the map.
C4_EffectiveMutationDirties ==
  [][(Editing /\ ~LiveDiffers /\ Mutation)
       => /\ Inserted => LiveDiffers'
          /\ Len(placedIds') > Len(placedIds) => LiveDiffers'
          /\ Len(edges') > Len(edges) => LiveDiffers'
          /\ LiveDiffers' <=> (tree' # tree \/ canvasStateMap' # canvasStateMap)]_vars

\* C4 witness: one mutation after a load, and the session is dirty
C4_Witness == Editing /\ ops = 1 /\ saves = 0 /\ LiveDiffers /\ isDirty

\* C5 as claimed: when a save succeeds the snapshot is the serialisation of
\* the live tree and map, so dirty is false.
C5_SaveSuccessCleansLive ==
  [][SaveSucceeded
       => /\ savedSnapshot' = Stringify(tree', canvasStateMap')
          /\ ~LiveDiffers']_vars

\* C5 amended: when a save succeeds the snapshot is the serialisation of the
\* tree and map that were flattened and sent, the store holds that document,
\* the session is back in Editing, and dirty is false exactly when the live
\* state still serialises to what was sent.
C5_SaveSuccessSnapshotsSent ==
  [][SaveSucceeded
       => /\ savedSnapshot' = Stringify(pending.tree, pending.canvasStateMap)
          /\ stored' = treeToWorkflow(pending.tree, pending.canvasStateMap)
          /\ ~saving'
          /\ tree' = tree /\ canvasStateMap' = canvasStateMap
          /\ LiveDiffers' <=>
               Stringify(tree, canvasStateMap)
                 # Stringify(pending.tree, pending.canvasStateMap)]_vars

\* C5 witness: a save has succeeded and the session is clean again
C5_Witness ==
  Editing /\ toast = "success" /\ ops > 0 /\ ~LiveDiffers /\ stored = treeToWorkflow(tree, canvasStateMap)

\* C6 as claimed: when a save fails, tree, map and snapshot are untouched, the
\* failure is reported, the session is back in Editing and dirty is true.
C6_SaveFailureStaysDirty ==
  [][SaveFailed
       => /\ tree' = tree /\ canvasStateMap' = canvasStateMap
          /\ savedSnapshot' = savedSnapshot
          /\ toast' = "error" /\ ~saving'
          /\ LiveDiffers']_vars

\* C6 amended: when a save fails, tree, map, snapshot and the stored document
\* are untouched, the failure is reported and the session is back in Editing;
\* dirty keeps its value, which is true whenever the live state is still the
\* state that was sent.
C6_SaveFailureChangesNothing ==
  [][SaveFailed
       => /\ tree' = tree /\ canvasStateMap' = canvasStateMap
          /\ savedSnapshot' = savedSnapshot
          /\ stored' = stored
          /\ toast' = "error" /\ ~saving'
          /\ LiveDiffers' <=> LiveDiffers
          /\ (tree = pending.tree /\ canvasStateMap = pending.canvasStateMap)
               => (LiveDiffers' /\ isDirty')]_vars

\* C6 witness: a save has failed and the session is in Editing, still dirty
C6_Witness == Editing /\ toast = "error" /\ LiveDiffers /\ isDirty

\* C8: the editor is left with a dirty session only through the confirmation
\* dialog, whichever control triggers the navigation.
C8_DirtyExitConfirmed ==
  [][(route = "workflow" /\ route' = "edit" /\ LiveDiffers) => showExitDialog]_vars

\* C9: in a tree built from the fresh recipe root by insertions alone, every
\* non-root node has the kind its parent's kind permits.
C9_Containment ==
  (stored = Null /\ tree # Null) => Contained(tree)

\* C10: no node of kind PHASE has children, in any tree reached by insertions
\* from a loaded tree that has none.
C10_PhasesAreLeaves ==
  tree # Null => PhasesAreLeaves(tree)

RECURSIVE NoSelfChild(_)
\* no node has a direct child carrying the node's own id
NoSelfChild(n) ==
  \A i \in 1..Len(n.children) :
    n.children[i].id # n.id /\ NoSelfChild(n.children[i])

\* C11: an insertion whose new id equals the id of the parent is refused, so
\* no node of the live tree ever has a direct child carrying its own id.
C11_SelfParentingRefused ==
  tree # Null => NoSelfChild(tree)

\* C13: an insertion appends the new node under the one node carrying the
\* parent id and changes nothing else, so the tree grows by exactly one node.
C13_InsertGrowsByOne ==
  [][Inserted => TreeSize(tree') = TreeSize(tree) + 1]_vars

RECURSIVE PreOrder(_)
\* the nodes of a tree: root first, then the children's subtrees in stored order
PreOrder(n) == <<n>> \o Flat([i \in 1..Len(n.children) |-> PreOrder(n.children[i])])

FirstInPreOrder(root, id) ==
  LET po == PreOrder(root)
      hits == {i \in 1..Len(po) : po[i].id = id}
  IN IF hits = {} THEN Null ELSE po[CHOOSE i \in hits : \A j \in hits : i <= j]

IsChildOf(c, parent) == \E i \in 1..Len(parent.children) : parent.children[i] = c

\* the ids looked up: those of nodes, and one no node carries
ProbeIds == Ids \cup {"c", "d", "zz"}

\* C14: findNode returns the first node in pre-order whose id matches, or null;
\* buildPath returns null exactly when findNode does, and otherwise a path
\* from the root to the node findNode returns, each element a direct child
\* of the one before.
C14_FindAndPathAgree ==
  tree # Null =>
    \A id \in ProbeIds :
      LET f == findNode(tree, id)
          path == buildPath(tree, id, <<>>)
      IN /\ f = FirstInPreOrder(tree, id)
         /\ (f = Null) <=> (path = NoPath)
         /\ path # NoPath =>
              /\ path[1] = tree
              /\ path[Len(path)] = f
              /\ \A k \in 2..Len(path) : IsChildOf(path[k], path[k - 1])

\* C14 witness: an id carried by two nodes, the first of them below the root's
\* children, and an id no node carries
C14_Witness ==
  /\ tree # Null
  /\ findNode(tree, "zz") = Null /\ buildPath(tree, "zz", <<>>) = NoPath
  /\ \E id \in Ids :
       /\ Occurrences(id) >= 2
       /\ Len(buildPath(tree, id, <<>>)) >= 3

\* the single-node tree the load effect falls back to
FallbackRoot == Node(RecipeId, RecipeName, "RECIPE", <<>>)

\* the stored recipe has no document, or a document with no node records
NoDocument == stored = Null \/ Len(stored.nodes) = 0
\* the stored document has records, none of them with the recipe's id
NoRootRecord == ~NoDocument /\ ById(stored, RecipeId) = Undefined

\* C12: a load of a recipe with no document (or no node records) yields the
\* single-node RECIPE tree and an empty map; a load of a document with no
\* record of the root id yields the same tree; both end in Editing, not in
\* the error state.
C12_LoadFallback ==
  [][(route = "workflow" /\ loading /\ ~loading')
       => /\ NoDocument =>
               /\ tree' = FallbackRoot /\ canvasStateMap' = <<>>
               /\ error' = NoError /\ Editing'
          /\ NoRootRecord =>
               /\ tree' = FallbackRoot
               /\ error' = NoError /\ Editing']_vars

\* C12 witness: a document without a record of the root id has been loaded
\* and the editor shows the single-node tree
C12_Witness == NoRootRecord /\ Editing /\ tree = FallbackRoot /\ selectedId = RecipeId

RECURSIVE ReachableIds(_, _, _)
\* the ids of the records reached from the ids in seen by following parentId
ReachableIds(doc, seen, steps) ==
  IF steps = 0 THEN seen
  ELSE ReachableIds(doc,
                    seen \cup {doc.nodes[i].id : i \in {j \in 1..Len(doc.nodes) :
                                                          doc.nodes[j].parentId \in seen}},
                    steps - 1)

\* the ids carried only by records that are not reached from the root record
OrphanIds(doc) ==
  {doc.nodes[i].id : i \in 1..Len(doc.nodes)}
  \ ReachableIds(doc, {RecipeId}, Len(doc.nodes))

\* C17: when a document is loaded, a record that is not reached from the root
\* record is in neither the rebuilt tree nor the rebuilt map (as a key, a
\* placed id or a position), and the load reports no error.
C17_OrphansDropped ==
  [][(route = "workflow" /\ loading /\ ~loading' /\ ~NoDocument /\ ~NoRootRecord)
       => /\ error' = NoError
          /\ \A id \in OrphanIds(stored) :
               /\ id \notin TreeIds(tree')
               /\ id \notin Keys(canvasStateMap')
               /\ \A L \in Keys(canvasStateMap') :
                    /\ ~Includes(Get(canvasStateMap', L).placedIds, id)
                    /\ ~HasKey(Get(canvasStateMap', L).nodePositions, id)]_vars

\* C15: every save that was started leads back to Editing with the saving
\* flag cleared (or the editor has been left), and every load leaves Loading.
C15_SessionNeverStuck ==
  /\ saving ~> (Editing \/ route = "edit")
  /\ (route = "workflow" /\ loading) ~> ~loading

\* C15 witness: a save was answered with a failure and the session is in
\* Editing again, the request gone
C15_Witness ==
  Editing /\ saves > 0 /\ pending = Null /\ toast = "error" /\ ~loading

\* the document a save of the live session would send
LiveDocument == treeToWorkflow(tree, canvasStateMap)

\* C18: the flattened document has exactly one record with parentId none, and
\* every other record's parentId is the id of another record of the document.
C18_DocumentWellFormed ==
  tree # Null =>
    LET d == LiveDocument
    IN /\ Cardinality({i \in 1..Len(d.nodes) : d.nodes[i].parentId = NoParent}) = 1
       /\ \A i \in 1..Len(d.nodes) :
            d.nodes[i].parentId # NoParent
              => \E j \in 1..Len(d.nodes) : j # i /\ d.nodes[j].id = d.nodes[i].parentId

\* C18 witness: a document of a tree three levels deep, with siblings
C18_Witness ==
  /\ tree # Null /\ Len(tree.children) >= 2
  /\ \E i \in 1..Len(tree.children) : tree.children[i].children # <<>>
  /\ Len(LiveDocument.nodes) >= 4

RECURSIVE SizeOfFirst(_, _)
\* the number of nodes in the subtrees of the first k children
SizeOfFirst(children, k) ==
  IF k = 0 THEN 0 ELSE SizeOfFirst(children, k - 1) + TreeSize(children[k])

\* the pre-order index of the k-th child of the node at pre-order index i
ChildIndex(po, i, k) == i + 1 + SizeOfFirst(po[i].children, k - 1)

\* C19: the document has one record per tree node, in pre-order, placed or
\* not; the root record has parentId none and order 0; every other record
\* carries its parent's id and its zero-based index among its siblings.
C19_FlattenCoversTree ==
  tree # Null =>
    LET d == LiveDocument
        po == PreOrder(tree)
    IN /\ Len(d.nodes) = Len(po)
       /\ \A i \in 1..Len(po) :
            /\ d.nodes[i].id = po[i].id
            /\ d.nodes[i].name = po[i].name
            /\ d.nodes[i].type = po[i].type
            /\ \A k \in 1..Len(po[i].children) :
                 /\ d.nodes[ChildIndex(po, i, k)].parentId = po[i].id
                 /\ d.nodes[ChildIndex(po, i, k)].order = k - 1
       /\ d.nodes[1].parentId = NoParent
       /\ d.nodes[1].order = 0

\* C19 witness: siblings of which one is placed and one is not, and a
\* grandchild of the root that is not placed
C19_Witness ==
  /\ tree # Null /\ Len(tree.children) >= 2
  /\ \E i \in 1..Len(tree.children) : tree.children[i].children # <<>>
  /\ \E i, j \in 2..Len(LiveDocument.nodes) :
       LiveDocument.nodes[i].placed /\ ~LiveDocument.nodes[j].placed

\* C20: a record is placed exactly when it is the root's or its id is in the
\* placed ids of its parent's level (never when the parent has no level); a
\* child placed at a level with a recorded position has that position.
C20_PlacedFlag ==
  tree # Null =>
    LET d == LiveDocument
        po == PreOrder(tree)
    IN /\ d.nodes[1].placed
       /\ \A i \in 1..Len(po) : \A k \in 1..Len(po[i].children) :
            LET r == d.nodes[ChildIndex(po, i, k)]
                L == po[i].id
                level == Get(canvasStateMap, L)
            IN /\ r.placed <=> (level # Undefined /\ Includes(level.placedIds, r.id))
               /\ (r.placed /\ Get(level.nodePositions, r.id) # Undefined)
                    => (r.parentId = L /\ r.position = Get(level.nodePositions, r.id))

\* C20 witness: a child placed and dragged to a recorded position, a sibling
\* that is not placed, and a child of a node that has no level
C20_Witness ==
  /\ tree # Null
  /\ \E i, j \in 2..Len(LiveDocument.nodes) :
       /\ LiveDocument.nodes[i].placed
       /\ LiveDocument.nodes[i].position \in DragPositions
       /\ ~LiveDocument.nodes[j].placed
       /\ ~HasKey(canvasStateMap, LiveDocument.nodes[j].parentId)

\* the parentId of the last record of the document that carries the id and
\* has a parent
LastParentOf(doc, id) ==
  LET withParent == SelectSeq(doc.nodes, LAMBDA n : n.id = id /\ n.parentId # NoParent)
  IN IF withParent = <<>> THEN NoEntry ELSE withParent[Len(withParent)].parentId

\* C21: every level of the rebuilt map holds, in document order, the edge
\* records whose source resolves to that level's key as parent; an edge whose
\* source has no record with a parent is in no level, and nothing is raised.
C21_EdgesByParentOfSource ==
  pending # Null =>
    LET R == pending.canvasStateMap
    IN /\ \A K \in Keys(R) :
            Get(R, K).edges = SelectSeq(stored.edges, LAMBDA e : LastParentOf(stored, e.source) = K)
       /\ \A i \in 1..Len(stored.edges) :
            LET K == LastParentOf(stored, stored.edges[i].source)
            IN IF K = NoEntry
               THEN \A L \in Keys(R) : ~Includes(Get(R, L).edges, stored.edges[i])
               ELSE HasKey(R, K)

\* C21 witness: a document with an edge from the root, an edge from an id no
\* record carries, and edges that are rebuilt into a level
C21_Witness ==
  /\ pending # Null
  /\ \E i, j \in 1..Len(stored.edges) :
       /\ stored.edges[i].source = RecipeId
       /\ stored.edges[j].source = "zz"
  /\ \E K \in Keys(pending.canvasStateMap) : Len(Get(pending.canvasStateMap, K).edges) >= 2

\* no element occurs twice in the sequence
NoRepeat(seq) == \A i, j \in 1..Len(seq) : seq[i] = seq[j] => i = j

C23_PlacedHavePositions ==
  \A L \in Keys(canvasStateMap) :
    \A id \in AsSet(Get(canvasStateMap, L).placedIds) :
      HasKey(Get(canvasStateMap, L).nodePositions, id)

\* the live tree or map is no longer the one the request in flight carries
EditedInFlight ==
  pending # Null /\ (tree # pending.tree \/ canvasStateMap # pending.canvasStateMap)

\* C24: when a save succeeds after the tree or the map was edited while it was
\* in flight, the snapshot is the serialisation of the state that was sent,
\* not of the live state, the store holds what was sent, and dirty is true
\* afterwards exactly when the live state serialises differently from it.
C24_InFlightEditsStayDirty ==
  [][(SaveSucceeded /\ EditedInFlight)
       => /\ savedSnapshot' = Stringify(pending.tree, pending.canvasStateMap)
          /\ savedSnapshot' # Stringify(tree', canvasStateMap')
          /\ stored' = pending.workflow
          /\ isDirty' <=> (Stringify(tree', canvasStateMap')
                             # Stringify(pending.tree, pending.canvasStateMap))
          /\ isDirty']_vars

\* C24 witness: a save has succeeded, the store holds a document that is not
\* the flattening of the live state, and the session is dirty
C24_Witness ==
  /\ Editing /\ toast = "success" /\ pending = Null /\ isDirty
  /\ stored # treeToWorkflow(tree, canvasStateMap)
  /\ savedSnapshot # Stringify(tree, canvasStateMap)

\* C25: a save request is issued only when none is in flight.
C25_OneSaveInFlight ==
  [][(saves' = saves + 1) => (pending = Null /\ ~saving /\ pending' # Null)]_vars

\* C25 witness: a second save was issued in a session, after the first one
\* was answered
C25_Witness == saves = 2 /\ pending # Null /\ saving /\ route = "workflow"

\* C26: rebuilding the document the editor would save ends with a tree (or
\* null), whatever insertions were made.
C26_RebuildTerminates ==
  tree # Null => workflowToTree(LiveDocument, tree.id) # RangeError

\* the document obtained by saving the live session, loading it again and
\* flattening what was loaded
Reflattened ==
  LET t2 == workflowToTree(LiveDocument, tree.id)
  IN IF t2 = RangeError \/ t2 = Null THEN t2
     ELSE treeToWorkflow(t2, workflowToCanvasStateMap(LiveDocument))

\* C27: flattening the rebuild of the flattened live session gives the same
\* document: the same node records and edge records in the same order.
C27_DocumentStable ==
  tree # Null => Reflattened = LiveDocument

\* C28: in Editing, every key of the live map is the id of a node of the live
\* tree.
C28_MapKeysAreTreeNodes ==
  Editing => Keys(canvasStateMap) \subseteq TreeIds(tree)

\* a canvas handler notified the editor of its level's state
Notified == Mutation /\ ~Inserted

\* C29: a canvas notification for the selected level replaces only that
\* level's entry: the tree, the snapshot and every other entry stay as they
\* were and no entry is removed; an insertion changes the tree and leaves the
\* map and the snapshot as they were.
C29_OneMutationOnePart ==
  [][/\ Notified =>
          /\ tree' = tree
          /\ savedSnapshot' = savedSnapshot
          /\ Keys(canvasStateMap') = Keys(canvasStateMap) \cup {selectedId}
          /\ \A k \in Keys(canvasStateMap) \ {selectedId} :
                Get(canvasStateMap', k) = Get(canvasStateMap, k)
          /\ Get(canvasStateMap', selectedId)
               = emitState(nodes', edges', placedIds', terminalIds')
     /\ Inserted =>
          /\ tree' # tree
          /\ canvasStateMap' = canvasStateMap
          /\ savedSnapshot' = savedSnapshot]_vars

\* the selected level's entry was written by a notification, another level's
\* entry is as it was loaded
C29_Witness ==
  /\ Editing /\ stored # Null /\ saves = 0 /\ ops >= 1
  /\ LET loaded == workflowToCanvasStateMap(stored)
     IN \E k1 \in Keys(canvasStateMap), k2 \in Keys(canvasStateMap) :
          /\ k1 # k2
          /\ k1 = selectedId
          /\ ~HasKey(loaded, k1) \/ Get(canvasStateMap, k1) # Get(loaded, k1)
          /\ HasKey(loaded, k2) /\ Get(canvasStateMap, k2) = Get(loaded, k2)

\* the head of the serialisation of a session whose tree is t
TreePart(t) == <<"{tree:">> \o StringifyNode(t) \o <<",canvasStateMap:{">>

\* the snapshot was not taken of the live tree: an insertion is unsaved
TreeUnsaved ==
  /\ tree # Null
  /\ LET head == TreePart(tree)
     IN \/ Len(savedSnapshot) < Len(head)
        \/ SubSeq(savedSnapshot, 1, Len(head)) # head

\* C30: an insertion leaves the session with an unsaved tree and dirty; as
\* long as the editor is open, a session with an unsaved tree stays so, and
\* dirty, through every step but the success of a save of the live tree.
C30_InsertionStaysDirty ==
  [][/\ Inserted => (TreeUnsaved' /\ isDirty')
     /\ (route' = "workflow" /\ TreeUnsaved /\ ~(SaveSucceeded /\ pending.tree = tree))
          => (TreeUnsaved' /\ isDirty')]_vars

\* one insertion, then a save of it that failed: the session is still dirty
C30_Witness ==
  /\ Editing /\ pending = Null /\ toast = "error" /\ ops = 1
  /\ TreeUnsaved /\ isDirty

====
